---- MODULE Spec2Model ----
(***************************************************************************)
(* Model of AlpacaTradingBot (src/tradingbot.py): the rebalancing decision *)
(* (calculate_rebalance_action), its execution (execute_rebalance,         *)
(* place_order) and the monitoring loop (start_monitoring,                 *)
(* stop_monitoring, print_daily_summary).                                  *)
(*                                                                         *)
(* Numbers.  Prices are Python floats (IEEE-754 binary64).  A price is     *)
(* carried as its number of cents c and stands for the double nearest to   *)
(* c / 100, which is what float(latest_trade.price) holds for a quote of   *)
(* that many cents.  Everything the source computes from prices is         *)
(* computed here in binary64, rounding to nearest, ties to even: the       *)
(* percentage change, the comparisons with 0.05 and -0.10, qty * price,    *)
(* int(reserve / price) and int(qty * 0.05).  So (3.15 - 3.00) / 3.00 is   *)
(* 0.04999999999999997 and is below 0.05, and 18.2 / 2.6 is                *)
(* 6.999999999999999 and truncates to 6.  A double is the record           *)
(* [s, m, e] of its sign, its 53-bit significand and its exponent, of      *)
(* value s * m * 2^e; the significand is a sequence of 15-bit limbs, least *)
(* significant first.                                                      *)
(*                                                                         *)
(* Optional[float].  None is the empty sequence, a float p is <<p>>.       *)
(*                                                                         *)
(* Atomicity.  The program is single threaded, but a KeyboardInterrupt is  *)
(* raised between any two bytecodes.  One action is therefore one          *)
(* statement that calls the broker or writes a field of the session, and   *)
(* an interrupt can be taken before each of them.  Inside the "try" of     *)
(* start_monitoring (lines 217-256) it is caught and stop_monitoring       *)
(* runs; before the "try" (lines 196-217) and after it (line 262,          *)
(* stop_monitoring and print_daily_summary) nothing catches it and it      *)
(* leaves start_monitoring.                                                *)
(***************************************************************************)
EXTENDS Integers, Sequences, FiniteSets, TLC

\* ------------------------------------------------------------ bounds
\* Loop iterations explored per run.
MaxIter == 3

\* ------------------------------------------------------------ inputs
\* Quotes of the broker, in cents.  The source puts no constraint on the sign
\* of what the broker returns.  Against the reference 3.00: 3.15 is a gain of
\* exactly 5% and 2.70 a loss of exactly 10%, 3.64 and 2.60 lie beyond the
\* thresholds.
Prices == {-318, -300, 0, 260, 270, 300, 315, 364}

None == << >>
Some(p) == << p >>
Val(x) == x[1]

\* What get_current_price returns: None on any exception, else the float.
PriceReturns == {None} \cup {Some(p) : p \in Prices}

\* int(position.qty) of the broker's position in the ticker (0: no position,
\* negative: a short position).
Qtys == {-20, 0, 1, 39, 100}

\* The argument of start_monitoring.
Tickers == {"spy", "SPY"}

\* The broker's clock: open, closed, or get_clock() raised.
Clocks == {"open", "closed", "error"}

\* Sessions on which the decision alone is explored: reference and current
\* prices in cents, unset and non-positive ones included.
DecideRefCents == {-10000, 0, 100, 300, 10000}
DecideCurCents == {-10600, 0, 76, 90, 260, 270, 315, 364, 9000, 9450, 10500}

\* Reserves of those sessions, each the proceeds qty * price of a sale as line
\* 172 computes them (qty 0: no reserve).  525.00, 18.20, 2.28, 1.05, 89.00 (too
\* little for one share at 90.00), -530.00.
DecideSales ==
    { [qty |-> 0, price |-> 10500], [qty |-> 5, price |-> 10500],
      [qty |-> 5, price |-> 364], [qty |-> 2, price |-> 114],
      [qty |-> 1, price |-> 105], [qty |-> 1, price |-> 8900],
      [qty |-> 5, price |-> -10600] }

\* Every price of the model, in cents.
AllCents ==
    Prices \cup DecideRefCents \cup DecideCurCents
        \cup {sale.price : sale \in DecideSales}

\* ------------------------------------------------------------ binary64
\* Natural numbers of any size, as sequences of limbs below Base, least
\* significant first and without leading zero limbs.
Base == 32768
LimbBits == 15
\* Bits of the significand of a double.
SignificandBits == 53

Pow2(k) ==
    CASE k = 0 -> 1 [] k = 1 -> 2 [] k = 2 -> 4 [] k = 3 -> 8 [] k = 4 -> 16
      [] k = 5 -> 32 [] k = 6 -> 64 [] k = 7 -> 128 [] k = 8 -> 256
      [] k = 9 -> 512 [] k = 10 -> 1024 [] k = 11 -> 2048 [] k = 12 -> 4096
      [] k = 13 -> 8192 [] k = 14 -> 16384 [] k = 15 -> 32768

Max(a, b) == IF a >= b THEN a ELSE b
Min(a, b) == IF a <= b THEN a ELSE b
Abs(a) == IF a < 0 THEN -a ELSE a
Sign(a) == IF a > 0 THEN 1 ELSE IF a < 0 THEN -1 ELSE 0

RECURSIVE BNorm(_)
BNorm(a) ==
    IF a = << >> THEN a
    ELSE IF a[Len(a)] = 0 THEN BNorm(SubSeq(a, 1, Len(a) - 1)) ELSE a

RECURSIVE BOfInt(_)
BOfInt(k) == IF k = 0 THEN << >> ELSE << k % Base >> \o BOfInt(k \div Base)

RECURSIVE BToInt(_)
BToInt(a) == IF a = << >> THEN 0 ELSE a[1] + Base * BToInt(Tail(a))

RECURSIVE BitLength(_)
BitLength(k) == IF k = 0 THEN 0 ELSE 1 + BitLength(k \div 2)

BBitLen(a) ==
    IF a = << >> THEN 0 ELSE LimbBits * (Len(a) - 1) + BitLength(a[Len(a)])

RECURSIVE BCmpFrom(_, _, _)
BCmpFrom(a, b, i) ==
    IF i = 0 THEN 0
    ELSE IF a[i] > b[i] THEN 1
    ELSE IF a[i] < b[i] THEN -1
    ELSE BCmpFrom(a, b, i - 1)

\* -1, 0 or 1 as a is below, equal to or above b.
BCmp(a, b) ==
    IF Len(a) > Len(b) THEN 1
    ELSE IF Len(a) < Len(b) THEN -1
    ELSE BCmpFrom(a, b, Len(a))

Limb(a, i) == IF i <= Len(a) THEN a[i] ELSE 0

RECURSIVE BAddFrom(_, _, _, _)
BAddFrom(a, b, i, carry) ==
    IF i > Len(a) /\ i > Len(b)
    THEN IF carry = 0 THEN << >> ELSE << carry >>
    ELSE LET t == Limb(a, i) + Limb(b, i) + carry
         IN  << t % Base >> \o BAddFrom(a, b, i + 1, t \div Base)

BAdd(a, b) == BAddFrom(a, b, 1, 0)

RECURSIVE BSubFrom(_, _, _, _)
BSubFrom(a, b, i, borrow) ==
    IF i > Len(a) THEN << >>
    ELSE LET t == Limb(a, i) - Limb(b, i) - borrow
         IN  IF t < 0 THEN << t + Base >> \o BSubFrom(a, b, i + 1, 1)
                      ELSE << t >> \o BSubFrom(a, b, i + 1, 0)

\* a - b, for a >= b.
BSub(a, b) == BNorm(BSubFrom(a, b, 1, 0))

RECURSIVE BMulFrom(_, _, _, _)
BMulFrom(a, k, i, carry) ==
    IF i > Len(a)
    THEN IF carry = 0 THEN << >> ELSE << carry >>
    ELSE LET t == a[i] * k + carry
         IN  << t % Base >> \o BMulFrom(a, k, i + 1, t \div Base)

\* a * k, for 0 <= k < Base.
BMulSmall(a, k) == IF k = 0 THEN << >> ELSE BMulFrom(a, k, 1, 0)

\* A quotient digit d put above the digits of rest.
BDivPut(rest, d) == [q |-> rest.q \o << d >>, r |-> rest.r]

BDivDone(d) == [q |-> BNorm(d.q), r |-> d.r]

RECURSIVE BDivFrom(_, _, _, _)
BDivFromDigit(a, k, i, t) == BDivPut(BDivFrom(a, k, i - 1, t % k), t \div k)

BDivFrom(a, k, i, r) ==
    IF i = 0 THEN [q |-> << >>, r |-> r]
    ELSE BDivFromDigit(a, k, i, r * Base + a[i])

\* Quotient and remainder of a by k, for 0 < k < Base.
BDivSmall(a, k) == BDivDone(BDivFrom(a, k, Len(a), 0))

\* a * 2^k
BShl(a, k) ==
    IF a = << >> THEN a
    ELSE [i \in 1..(k \div LimbBits) |-> 0]
             \o BMulSmall(a, Pow2(k % LimbBits))

\* floor(a / 2^k)
BShr(a, k) ==
    IF k \div LimbBits >= Len(a) THEN << >>
    ELSE BDivSmall(SubSeq(a, k \div LimbBits + 1, Len(a)),
                   Pow2(k % LimbBits)).q

\* a mod 2^k, for k <= LimbBits.
BLow(a, k) == IF a = << >> THEN 0 ELSE a[1] % Pow2(k)

BOdd(a) == a # << >> /\ a[1] % 2 = 1

\* The largest d in lo..hi with b * d <= r, given b * lo <= r.
RECURSIVE BDigit(_, _, _, _)
BDigit(r, b, lo, hi) ==
    IF lo = hi THEN lo
    ELSE LET mid == (lo + hi + 1) \div 2
         IN  IF BCmp(BMulSmall(b, mid), r) <= 0
             THEN BDigit(r, b, mid, hi)
             ELSE BDigit(r, b, lo, mid - 1)

RECURSIVE BDivStep(_, _, _, _)
BDivStepDigit(a, b, i, r2, d) ==
    BDivPut(BDivStep(a, b, i - 1, BSub(r2, BMulSmall(b, d))), d)

BDivStepRemainder(a, b, i, r2) ==
    BDivStepDigit(a, b, i, r2, BDigit(r2, b, 0, Base - 1))

BDivStep(a, b, i, r) ==
    IF i = 0 THEN [q |-> << >>, r |-> r]
    ELSE BDivStepRemainder(a, b, i, BNorm(<< a[i] >> \o r))

\* Quotient and remainder of a by b, for b > 0: long division, limb by limb.
BDivMod(a, b) == BDivDone(BDivStep(a, b, Len(a), << >>))

\* A significand of 53 or 54 bits and its exponent, brought to 53 bits.
Normalised(m1, e) ==
    IF BBitLen(m1) > SignificandBits
    THEN [m |-> BShr(m1, 1), e |-> e + 1]
    ELSE [m |-> m1, e |-> e]

\* Round to nearest, ties to even: m0 are the 53 leading bits of the quotient,
\* low the bits below them, half the weight of the first of those, inexact
\* whether the division left a remainder.
Rounded(m0, low, half, inexact, e) ==
    Normalised(IF low > half \/ (low = half /\ (inexact \/ BOdd(m0)))
               THEN BAdd(m0, << 1 >>) ELSE m0,
               e)

RoundQuotient(qr, extra, shift) ==
    Rounded(BShr(qr.q, extra), BLow(qr.q, extra), Pow2(extra - 1),
            qr.r # << >>, extra - shift)

RoundQuotientOf(qr, shift) ==
    RoundQuotient(qr, BBitLen(qr.q) - SignificandBits, shift)

RoundShifted(num, den, shift) ==
    RoundQuotientOf(BDivMod(IF shift >= 0 THEN BShl(num, shift) ELSE num,
                            IF shift >= 0 THEN den ELSE BShl(den, -shift)),
                    shift)

\* The double nearest to num / den (num, den > 0), as the significand m and
\* the exponent e of m * 2^e.  The quotient is taken to two or three bits more
\* than the significand; those bits and the remainder decide the rounding.
RoundNearestEven(num, den) ==
    RoundShifted(num, den, SignificandBits + 2 + BBitLen(den) - BBitLen(num))

\* 0.0
FZero == [s |-> 0, m |-> << >>, e |-> 0]

\* The double sgn * r.m * 2^(r.e + e).
WithSign(sgn, r, e) == [s |-> sgn, m |-> r.m, e |-> r.e + e]

\* The double nearest to sgn * num / den.
FOfRat(sgn, num, den) ==
    IF sgn = 0 \/ num = << >> THEN FZero
    ELSE WithSign(sgn, RoundNearestEven(num, den), 0)

\* The double of the decimal c / 100: float("3.15") for c = 315.
FOfCents(c) == FOfRat(Sign(c), BOfInt(Abs(c)), BOfInt(100))

\* float(k) of an int.
FOfInt(k) == FOfRat(Sign(k), BOfInt(Abs(k)), << 1 >>)

\* -x
FNeg(x) == [s |-> -x.s, m |-> x.m, e |-> x.e]

\* Comparison of two doubles: -1, 0 or 1 as x < y, x == y or x > y.
MagnitudeCmp(x, y) ==
    IF x.e > y.e THEN 1 ELSE IF x.e < y.e THEN -1 ELSE BCmp(x.m, y.m)

FCmp(x, y) ==
    IF x.s # y.s THEN (IF x.s > y.s THEN 1 ELSE -1)
    ELSE IF x.s = 0 THEN 0
    ELSE x.s * MagnitudeCmp(x, y)

\* The double f * 2^e.
WithExponent(f, e) ==
    IF f.s = 0 THEN FZero ELSE [s |-> f.s, m |-> f.m, e |-> f.e + e]

\* xs * xm * 2^e + ys * ym * 2^e, rounded; c compares xm with ym.
FAddCompared(xs, xm, ys, ym, e, c) ==
    WithExponent(FOfRat(IF xs = ys THEN xs ELSE c * xs,
                        IF xs = ys THEN BAdd(xm, ym)
                        ELSE IF c >= 0 THEN BSub(xm, ym) ELSE BSub(ym, xm),
                        << 1 >>),
                 e)

FAddAligned(xs, xm, ys, ym, e) ==
    FAddCompared(xs, xm, ys, ym, e, BCmp(xm, ym))

FAddAt(x, y, e) ==
    FAddAligned(x.s, BShl(x.m, x.e - e), y.s, BShl(y.m, y.e - e), e)

\* x + y, rounded.
FAdd(x, y) ==
    IF x.s = 0 THEN y
    ELSE IF y.s = 0 THEN x
    ELSE FAddAt(x, y, Min(x.e, y.e))

\* x - y, rounded.
FSub(x, y) == FAdd(x, FNeg(y))

\* x / y, rounded, for y # 0.
FDiv(x, y) ==
    IF x.s = 0 THEN FZero
    ELSE WithSign(x.s * y.s, RoundNearestEven(x.m, y.m), x.e - y.e)

\* k * x for an int k of magnitude below Base, rounded.
FMulInt(k, x) ==
    IF k = 0 \/ x.s = 0 THEN FZero
    ELSE WithSign(Sign(k) * x.s,
                  RoundNearestEven(BMulSmall(x.m, Abs(k)), << 1 >>), x.e)

\* Python's int(x): x truncated toward zero.
PyInt(x) ==
    IF x.s = 0 THEN 0
    ELSE x.s * BToInt(IF x.e >= 0 THEN BShl(x.m, x.e) ELSE BShr(x.m, -x.e))

\* ------------------------------------------------------------ Python values
\* float(latest_trade.price) for a quote of c cents.
PyFloatTable == [c \in AllCents |-> FOfCents(c)] @@ << >>

PyFloat(c) == IF c \in DOMAIN PyFloatTable THEN PyFloatTable[c] ELSE FOfCents(c)

\* self.gain_threshold = 0.05, self.loss_threshold = 0.10, and the literal 0.05
\* of "int(current_qty * 0.05)".
gain_threshold == FOfCents(5)
loss_threshold == FOfCents(10)
sell_fraction == FOfCents(5)

\* Python truthiness of an Optional[float]: None and 0.0 are falsy.
Truthy(x) == x # None /\ Val(x) # 0

\* str.upper() on the tickers of the model.
Upper(t) == IF t = "spy" THEN "SPY" ELSE t

\* pct_change = (self.current_price - self.initial_price) / self.initial_price
pct_change_value(cur, init) ==
    FDiv(FSub(PyFloat(cur), PyFloat(init)), PyFloat(init))

\* The pairs (current, reference) of the model's sessions, and the percentage
\* change of each, computed once.
PctChangeDomain ==
    (Prices \X (Prices \ {0}))
        \cup (DecideCurCents \X (DecideRefCents \ {0}))

PctChangeTable == [p \in PctChangeDomain |-> pct_change_value(p[1], p[2])] @@ << >>

pct_change(cur, init) ==
    IF << cur, init >> \in DOMAIN PctChangeTable
    THEN PctChangeTable[<< cur, init >>]
    ELSE pct_change_value(cur, init)

\* int(current_qty * 0.05)
sell_fraction_of(current_qty) == PyInt(FMulInt(current_qty, sell_fraction))

SellFractionTable == [q \in Qtys |-> sell_fraction_of(q)] @@ << >>

\* sell_qty = max(1, int(current_qty * 0.05))
sell_qty(current_qty) ==
    Max(1, IF current_qty \in DOMAIN SellFractionTable
           THEN SellFractionTable[current_qty]
           ELSE sell_fraction_of(current_qty))

\* action_dict['qty'] * self.current_price
proceeds_value(qty, cur) == FMulInt(qty, PyFloat(cur))

ProceedsDomain ==
    ({sell_qty(q) : q \in {h \in Qtys : h > 0}} \X (Prices \ {0}))
        \cup {<< sale.qty, sale.price >> : sale \in DecideSales}

ProceedsTable == [p \in ProceedsDomain |-> proceeds_value(p[1], p[2])] @@ << >>

proceeds(qty, cur) ==
    IF << qty, cur >> \in DOMAIN ProceedsTable
    THEN ProceedsTable[<< qty, cur >>]
    ELSE proceeds_value(qty, cur)

\* buy_qty = int(self.cash_reserve / self.current_price), for a price above 0.
buy_qty_value(reserve, cur) == PyInt(FDiv(reserve, PyFloat(cur)))

BuyQtyDomain ==
    { << proceeds(p[1], p[2]), c >> :
        p \in {s \in ProceedsDomain : s[1] * s[2] > 0},
        c \in {d \in Prices \cup DecideCurCents : d > 0} }

BuyQtyTable == [p \in BuyQtyDomain |-> buy_qty_value(p[1], p[2])] @@ << >>

buy_qty(reserve, cur) ==
    IF << reserve, cur >> \in DOMAIN BuyQtyTable
    THEN BuyQtyTable[<< reserve, cur >>]
    ELSE buy_qty_value(reserve, cur)

\* ------------------------------------------------------------ state
VARIABLES
    pc,             \* position of start_monitoring
    ticker,         \* self.ticker ("" for None)
    initial_price,  \* self.initial_price
    current_price,  \* self.current_price
    daily_high,     \* self.daily_high
    daily_low,      \* self.daily_low
    cash_reserve,   \* self.cash_reserve, a double
    trades_today,   \* self.trades_today
    is_running,     \* self.is_running
    action,         \* the local "action" of the loop body
    summary,        \* how far print_daily_summary got: none, prices, position, full
    \* history of the run, read by the properties only
    iter,           \* number of the current loop iteration
    clock,          \* what the broker's clock said at the last check
    polled,         \* what this iteration's get_current_price returned
    absent_run,     \* consecutive iterations whose poll was falsy
    position_qty,   \* the qty calculate_rebalance_action read
    position_ok,    \* whether that list_positions call succeeded
    order_result,   \* this iteration's submit_order: none, ok, error
    orders_iter,    \* submit_order calls made in this iteration
    submitted_ok,   \* submit_order calls of the run that returned
    observed,       \* prices assigned to self.current_price so far
    reserve_update, \* this iteration's update of cash_reserve
    evaluated,      \* calculate_rebalance_action ran in this iteration
    exit_cause,     \* why the loop ended: market, interrupt, error
    failed_sells,   \* sell submissions that raised since the last sell made
    reserve_exact   \* the reserve as a decimal number of cents: qty * price

session == << ticker, initial_price, current_price, daily_high, daily_low,
              cash_reserve, trades_today, is_running >>
iteration == << action, polled, position_qty, position_ok, order_result,
                orders_iter, reserve_update, evaluated >>
history == << iter, clock, absent_run, submitted_ok, observed, exit_cause,
              failed_sells, reserve_exact >>
vars == << pc, session, summary, iteration, history >>

\* "return None" of calculate_rebalance_action, as a record.
NoAction ==
    [action |-> "none", qty |-> 0, reserve_cash |-> FALSE, use_reserve |-> FALSE]

\* ------------------------------------------------------------ broker calls
\* get_current_price: None when get_latest_trade raised, else its float.
get_current_price(r) == IF r = None THEN None ELSE Some(Val(r))

\* get_position(...)['qty']: the broker's qty, and 0 both when the ticker has
\* no position and when list_positions raised.
get_position(q, ok) == IF ok THEN q ELSE 0

\* is_market_open: "return True #clock.is_open" when get_clock returned,
\* False when it raised.
is_market_open_fail_open(c) == TRUE

is_market_open(c) == IF c = "error" THEN FALSE ELSE TRUE

\* ------------------------------------------------------------ decision
\* Lines 149-158: buy_qty, computed once by the caller, and "if buy_qty > 0".
buy_action(qty) ==
    IF qty > 0
    THEN [action |-> "buy", qty |-> qty,
          reserve_cash |-> FALSE, use_reserve |-> TRUE]
    ELSE NoAction

\* Lines 136-143: "if current_qty > 0", sell max(1, int(current_qty * 0.05)).
sell_action_no_position_guard(current_qty) ==
    [action |-> "sell", qty |-> sell_qty(current_qty),
     reserve_cash |-> TRUE, use_reserve |-> FALSE]

sell_action(current_qty) ==
    IF current_qty > 0
    THEN [action |-> "sell", qty |-> sell_qty(current_qty),
          reserve_cash |-> TRUE, use_reserve |-> FALSE]
    ELSE NoAction

\* Lines 134-158, the two branches on pct_change (computed once, line 129):
\* gain with an empty reserve, loss with a reserve.
rebalance_branches_no_reserve_guard(pct, cur, reserve, current_qty) ==
    IF FCmp(pct, gain_threshold) >= 0
    THEN sell_action(current_qty)
    ELSE IF FCmp(pct, FNeg(loss_threshold)) <= 0
    THEN IF FCmp(reserve, FZero) > 0 /\ cur > 0
         THEN buy_action(buy_qty(reserve, cur))
         ELSE NoAction
    ELSE NoAction

rebalance_branches(pct, cur, reserve, current_qty) ==
    IF FCmp(pct, gain_threshold) >= 0 /\ FCmp(reserve, FZero) = 0
    THEN sell_action(current_qty)
    ELSE IF FCmp(pct, FNeg(loss_threshold)) <= 0 /\ FCmp(reserve, FZero) > 0
    THEN IF FCmp(reserve, FZero) > 0 /\ cur > 0
         THEN buy_action(buy_qty(reserve, cur))
         ELSE NoAction
    ELSE NoAction

\* calculate_rebalance_action, on the session fields it reads and the qty
\* get_position returned to it.
calculate_rebalance_action(init, cur, reserve, current_qty) ==
    IF ~Truthy(init) \/ ~Truthy(cur) THEN NoAction
    ELSE rebalance_branches(pct_change(Val(cur), Val(init)), Val(cur), reserve,
                            current_qty)

\* ------------------------------------------------------------ execution
\* The record place_order appends (lines 104-111): the decision's side and
\* qty and self.current_price.
trade_record(act, cur) ==
    [side |-> act.action, qty |-> act.qty, price |-> Val(cur)]

\* execute_rebalance's update of self.cash_reserve, given place_order's result.
execute_rebalance_ignores_result(reserve, act, cur, success) ==
    IF act.reserve_cash THEN proceeds(act.qty, Val(cur))
    ELSE IF act.use_reserve THEN FZero
    ELSE reserve

execute_rebalance_reserves_quantity(reserve, act, cur, success) ==
    IF success
    THEN IF act.reserve_cash THEN FOfInt(act.qty)
         ELSE IF act.use_reserve THEN FZero
         ELSE reserve
    ELSE reserve

execute_rebalance(reserve, act, cur, success) ==
    IF success
    THEN IF act.reserve_cash THEN proceeds(act.qty, Val(cur))
         ELSE IF act.use_reserve THEN FZero
         ELSE reserve
    ELSE reserve

\* Which branch of execute_rebalance assigned self.cash_reserve.
reserve_branch(act, success) ==
    IF success /\ act.reserve_cash THEN "sets-reserve"
    ELSE IF success /\ act.use_reserve THEN "clears-reserve"
    ELSE "none"

\* What execute_rebalance's update comes to in decimal arithmetic, in cents.
exact_reserve(exact, act, cur, success) ==
    IF success
    THEN IF act.reserve_cash THEN act.qty * Val(cur)
         ELSE IF act.use_reserve THEN 0
         ELSE exact
    ELSE exact

\* ------------------------------------------------------------ extremes
\* self.daily_high = max(self.daily_high, current_price)
widen_high(high, p) == Max(high, p)

\* self.daily_low = min(self.daily_low, current_price)
widen_low(low, p) == Min(low, p)

\* ------------------------------------------------------------ start_monitoring
\* Line 196 not yet executed ("idle") to line 217, before the "try": an
\* interrupt here leaves start_monitoring.
InitPcs == {"idle", "init_fetch", "init_test", "init_high", "init_low",
            "init_cur", "init_position", "init_running", "enter_try"}

\* Lines 218-256, inside the "try".
LoopPcs == {"check", "poll", "set_price", "set_high", "set_low", "evaluate",
            "submit", "record", "settle", "sleep"}

\* Line 262, after the "try": stop_monitoring and print_daily_summary.
StopPcs == {"stopping", "summary_start", "summary_position", "summary_account"}

\* start_monitoring has ended: it returned after the summary ("stopped"), it
\* returned without an initial price ("aborted"), or an interrupt left it,
\* before the loop was entered ("escaped_init") or after the loop was left
\* ("escaped").
EndPcs == {"stopped", "aborted", "escaped_init", "escaped"}

\* The per-iteration history, as it is when an iteration begins.
FreshIteration ==
    /\ polled' = None
    /\ position_qty' = 0
    /\ position_ok' = TRUE
    /\ order_result' = "none"
    /\ orders_iter' = 0
    /\ reserve_update' = "none"
    /\ evaluated' = FALSE
    /\ action' = NoAction

\* Line 196: self.ticker = ticker.upper()
Start(t) ==
    /\ pc = "idle"
    /\ ticker' = Upper(t)
    /\ pc' = "init_fetch"
    /\ UNCHANGED << initial_price, current_price, daily_high, daily_low,
                    cash_reserve, trades_today, is_running >>
    /\ UNCHANGED << summary, iteration, history >>

\* The initial fetch with "self.is_running = True" set before the price is
\* tested.
InitialPrice_sets_running_first(r) ==
    /\ pc = "init_fetch"
    /\ initial_price' = get_current_price(r)
    /\ is_running' = TRUE
    /\ pc' = "init_test"
    /\ UNCHANGED << ticker, current_price, daily_high, daily_low, cash_reserve,
                    trades_today >>
    /\ UNCHANGED << summary, iteration, history >>

\* Line 200: self.initial_price = self.get_current_price(self.ticker); the
\* value is stored whatever it is.
InitialPrice(r) ==
    /\ pc = "init_fetch"
    /\ initial_price' = get_current_price(r)
    /\ pc' = "init_test"
    /\ UNCHANGED << ticker, current_price, daily_high, daily_low, cash_reserve,
                    trades_today, is_running >>
    /\ UNCHANGED << summary, iteration, history >>

\* Lines 201-203: "if not self.initial_price:", the error log and the return.
InitialPriceTest ==
    /\ pc = "init_test"
    /\ pc' = IF ~Truthy(initial_price) THEN "aborted" ELSE "init_high"
    /\ UNCHANGED << session, summary, iteration, history >>

\* Line 205: self.daily_high = self.initial_price
InitialHigh ==
    /\ pc = "init_high"
    /\ daily_high' = initial_price
    /\ pc' = "init_low"
    /\ UNCHANGED << ticker, initial_price, current_price, daily_low,
                    cash_reserve, trades_today, is_running >>
    /\ UNCHANGED << summary, iteration, history >>

\* Line 206: self.daily_low = self.initial_price
InitialLow ==
    /\ pc = "init_low"
    /\ daily_low' = initial_price
    /\ pc' = "init_cur"
    /\ UNCHANGED << ticker, initial_price, current_price, daily_high,
                    cash_reserve, trades_today, is_running >>
    /\ UNCHANGED << summary, iteration, history >>

\* Line 207: self.current_price = self.initial_price
InitialCurrent ==
    /\ pc = "init_cur"
    /\ current_price' = initial_price
    /\ observed' = {Val(initial_price)}
    /\ pc' = "init_position"
    /\ UNCHANGED << ticker, initial_price, daily_high, daily_low, cash_reserve,
                    trades_today, is_running >>
    /\ UNCHANGED << summary, iteration, iter, clock, absent_run, submitted_ok,
                    exit_cause, failed_sells, reserve_exact >>

\* Line 212: position = self.get_position(self.ticker), for the log only; q
\* and ok are the outcome of its list_positions call.
InitialPosition(q, ok) ==
    /\ pc = "init_position"
    /\ get_position(q, ok) \in Int
    /\ pc' = "init_running"
    /\ UNCHANGED << session, summary, iteration, history >>

\* Line 215: self.is_running = True
SetRunning ==
    /\ pc = "init_running"
    /\ is_running' = TRUE
    /\ pc' = "enter_try"
    /\ UNCHANGED << ticker, initial_price, current_price, daily_high, daily_low,
                    cash_reserve, trades_today >>
    /\ UNCHANGED << summary, iteration, history >>

\* Line 217: "try:"; from here to line 256 an interrupt is caught.
EnterTry ==
    /\ pc = "enter_try"
    /\ iter' = 1
    /\ pc' = "check"
    /\ UNCHANGED << session, summary, iteration, clock, absent_run,
                    submitted_ok, observed, exit_cause, failed_sells,
                    reserve_exact >>

\* ------------------------------------------------------------ monitoring loop
\* The loop condition with a false market check skipping the iteration
\* instead of ending the loop.
MarketCheck_skips_on_failure(c) ==
    /\ pc = "check"
    /\ clock' = c
    /\ pc' = IF is_running /\ is_market_open(c) THEN "poll" ELSE "sleep"
    /\ UNCHANGED << session, summary, iteration, iter, absent_run, submitted_ok,
                    observed, exit_cause, failed_sells, reserve_exact >>

\* Line 218, the loop condition "self.is_running and self.is_market_open()":
\* when it is false the loop ends and line 262 is next.
MarketCheck(c) ==
    /\ pc = "check"
    /\ clock' = c
    /\ IF is_running /\ is_market_open(c)
       THEN pc' = "poll" /\ UNCHANGED exit_cause
       ELSE pc' = "stopping" /\ exit_cause' = "market"
    /\ UNCHANGED << session, summary, iteration, iter, absent_run, submitted_ok,
                    observed, failed_sells, reserve_exact >>

\* The poll with "self.current_price = self.get_current_price(...)" assigned
\* before the "if".
Poll_assigns_before_check(r) ==
    /\ pc = "poll"
    /\ polled' = get_current_price(r)
    /\ current_price' = get_current_price(r)
    /\ IF Truthy(get_current_price(r))
       THEN pc' = "set_price" /\ UNCHANGED absent_run
       ELSE pc' = "sleep" /\ absent_run' = absent_run + 1
    /\ UNCHANGED << ticker, initial_price, daily_high, daily_low, cash_reserve,
                    trades_today, is_running >>
    /\ UNCHANGED << summary, action, position_qty, position_ok, order_result,
                    orders_iter, reserve_update, evaluated, iter, clock,
                    submitted_ok, observed, exit_cause, failed_sells,
                    reserve_exact >>

\* Lines 220-221: current_price = self.get_current_price(self.ticker) into the
\* local, and "if current_price:"; a falsy price skips to the sleep.
Poll(r) ==
    /\ pc = "poll"
    /\ polled' = get_current_price(r)
    /\ IF Truthy(get_current_price(r))
       THEN pc' = "set_price" /\ UNCHANGED absent_run
       ELSE pc' = "sleep" /\ absent_run' = absent_run + 1
    /\ UNCHANGED << session, summary, action, position_qty, position_ok,
                    order_result, orders_iter, reserve_update, evaluated, iter,
                    clock, submitted_ok, observed, exit_cause, failed_sells,
                    reserve_exact >>

\* Line 222: self.current_price = current_price
SetCurrentPrice ==
    /\ pc = "set_price"
    /\ current_price' = polled
    /\ observed' = observed \cup {Val(polled)}
    /\ absent_run' = 0
    /\ pc' = "set_high"
    /\ UNCHANGED << ticker, initial_price, daily_high, daily_low, cash_reserve,
                    trades_today, is_running >>
    /\ UNCHANGED << summary, iteration, iter, clock, submitted_ok, exit_cause,
                    failed_sells, reserve_exact >>

\* Line 225: self.daily_high = max(self.daily_high, current_price)
WidenHigh ==
    /\ pc = "set_high"
    /\ daily_high' = Some(widen_high(Val(daily_high), Val(polled)))
    /\ pc' = "set_low"
    /\ UNCHANGED << ticker, initial_price, current_price, daily_low,
                    cash_reserve, trades_today, is_running >>
    /\ UNCHANGED << summary, iteration, history >>

\* Line 226: self.daily_low = min(self.daily_low, current_price)
WidenLow ==
    /\ pc = "set_low"
    /\ daily_low' = Some(widen_low(Val(daily_low), Val(polled)))
    /\ pc' = "evaluate"
    /\ UNCHANGED << ticker, initial_price, current_price, daily_high,
                    cash_reserve, trades_today, is_running >>
    /\ UNCHANGED << summary, iteration, history >>

\* Lines 229-246: the status log, "action = self.calculate_rebalance_action()"
\* and "if action:"; q and ok are the outcome of the list_positions call made
\* inside calculate_rebalance_action (the one of line 232 is for the log only).
Evaluate(q, ok) ==
    /\ pc = "evaluate"
    /\ position_qty' = get_position(q, ok)
    /\ position_ok' = ok
    /\ action' = calculate_rebalance_action(initial_price, current_price,
                                            cash_reserve, get_position(q, ok))
    /\ evaluated' = TRUE
    /\ pc' = IF action'.action # "none" THEN "submit" ELSE "sleep"
    /\ UNCHANGED << session, summary, polled, order_result, orders_iter,
                    reserve_update, history >>

\* Lines 94-101 and 113-116, place_order's submit_order call: it returns, and
\* the append of line 104 is next, or it raises, place_order returns False
\* and execute_rebalance's "if success:" is next.
Submit(ok) ==
    /\ pc = "submit"
    /\ order_result' = IF ok THEN "ok" ELSE "error"
    /\ orders_iter' = orders_iter + 1
    /\ submitted_ok' = IF ok THEN submitted_ok + 1 ELSE submitted_ok
    /\ failed_sells' = IF action.action # "sell" THEN failed_sells
                       ELSE IF ok THEN 0 ELSE failed_sells + 1
    /\ pc' = IF ok THEN "record" ELSE "settle"
    /\ UNCHANGED << session, summary, action, polled, position_qty,
                    position_ok, reserve_update, evaluated, iter, clock,
                    absent_run, observed, exit_cause, reserve_exact >>

\* Lines 104-112: self.trades_today.append(...) and "return True".
Record ==
    /\ pc = "record"
    /\ trades_today' = Append(trades_today, trade_record(action, current_price))
    /\ pc' = "settle"
    /\ UNCHANGED << ticker, initial_price, current_price, daily_high, daily_low,
                    cash_reserve, is_running >>
    /\ UNCHANGED << summary, iteration, history >>

\* The update of the reserve with the reference price moved to the price of
\* the trade.
Settle_resets_baseline ==
    /\ pc = "settle"
    /\ cash_reserve' = execute_rebalance(cash_reserve, action, current_price,
                                         order_result = "ok")
    /\ reserve_update' = reserve_branch(action, order_result = "ok")
    /\ reserve_exact' = exact_reserve(reserve_exact, action, current_price,
                                      order_result = "ok")
    /\ initial_price' = IF order_result = "ok" THEN current_price
                        ELSE initial_price
    /\ pc' = "sleep"
    /\ UNCHANGED << ticker, current_price, daily_high, daily_low, trades_today,
                    is_running >>
    /\ UNCHANGED << summary, action, polled, position_qty, position_ok,
                    order_result, orders_iter, evaluated, iter, clock,
                    absent_run, submitted_ok, observed, exit_cause,
                    failed_sells >>

\* Lines 169-179 and 248-252: execute_rebalance's "if success:" and its update
\* of self.cash_reserve.
Settle ==
    /\ pc = "settle"
    /\ cash_reserve' = execute_rebalance(cash_reserve, action, current_price,
                                         order_result = "ok")
    /\ reserve_update' = reserve_branch(action, order_result = "ok")
    /\ reserve_exact' = exact_reserve(reserve_exact, action, current_price,
                                      order_result = "ok")
    /\ pc' = "sleep"
    /\ UNCHANGED << ticker, initial_price, current_price, daily_high, daily_low,
                    trades_today, is_running >>
    /\ UNCHANGED << summary, action, polled, position_qty, position_ok,
                    order_result, orders_iter, evaluated, iter, clock,
                    absent_run, submitted_ok, observed, exit_cause,
                    failed_sells >>

\* Line 255: time.sleep(30), then back to the loop condition.
Sleep ==
    /\ pc = "sleep"
    /\ iter < MaxIter
    /\ iter' = iter + 1
    /\ pc' = "check"
    /\ FreshIteration
    /\ UNCHANGED << session, summary, clock, absent_run, submitted_ok,
                    observed, exit_cause, failed_sells, reserve_exact >>

\* Lines 257-258: a KeyboardInterrupt raised anywhere inside the "try", in a
\* broker call, in the sleep or between two statements, is caught; line 262
\* is next.  What the interrupted statement had not done yet stays undone.
Interrupt ==
    /\ pc \in LoopPcs
    /\ pc' = "stopping"
    /\ exit_cause' = "interrupt"
    /\ UNCHANGED << session, summary, iteration, iter, clock, absent_run,
                    submitted_ok, observed, failed_sells, reserve_exact >>

\* Lines 259-260: an exception raised by the status logging of the loop body
\* (ZoneInfo lookup, formatting) is caught; line 262 is next.
LoopError ==
    /\ pc = "evaluate"
    /\ pc' = "stopping"
    /\ exit_cause' = "error"
    /\ UNCHANGED << session, summary, iteration, iter, clock, absent_run,
                    submitted_ok, observed, failed_sells, reserve_exact >>

\* ------------------------------------------------------------ stop_monitoring
\* Lines 262 and 266-271: self.is_running = False, then the summary when the
\* ticker is set.
stop_monitoring ==
    /\ pc = "stopping"
    /\ is_running' = FALSE
    /\ pc' = IF ticker # "" THEN "summary_start" ELSE "stopped"
    /\ UNCHANGED << ticker, initial_price, current_price, daily_high, daily_low,
                    cash_reserve, trades_today >>
    /\ UNCHANGED << summary, iteration, history >>

\* print_daily_summary, lines 275-285: the header and the prices.
SummaryPrices ==
    /\ pc = "summary_start"
    /\ summary' = "prices"
    /\ pc' = "summary_position"
    /\ UNCHANGED << session, iteration, history >>

\* print_daily_summary, lines 287-295: get_position, then the position, the
\* reserve and the trades; q and ok are the outcome of list_positions.
SummaryPosition(q, ok) ==
    /\ pc = "summary_position"
    /\ get_position(q, ok) \in Int
    /\ summary' = "position"
    /\ pc' = "summary_account"
    /\ UNCHANGED << session, iteration, history >>

\* print_daily_summary, lines 297-300: get_account_info (None when
\* get_account raised), then the account lines.
SummaryAccount(ok) ==
    /\ pc = "summary_account"
    /\ ok \in BOOLEAN
    /\ summary' = "full"
    /\ pc' = "stopped"
    /\ UNCHANGED << session, iteration, history >>

\* A KeyboardInterrupt before the "try" (lines 196-217), the statements of
\* lines 196 and 201-203 included.  Nothing catches it: start_monitoring is
\* left before the loop is entered, with what was stored so far, and neither
\* the handlers of lines 257-260 nor line 262 run.
EscapeInit ==
    /\ pc \in InitPcs
    /\ pc' = "escaped_init"
    /\ UNCHANGED << session, summary, iteration, history >>

\* A KeyboardInterrupt after the "try", in stop_monitoring or
\* print_daily_summary (line 262).  Nothing catches it: start_monitoring is
\* left, after the loop, with the session as it is.
Escape ==
    /\ pc \in StopPcs
    /\ pc' = "escaped"
    /\ UNCHANGED << session, summary, iteration, history >>

\* ------------------------------------------------------------ specification
\* The bot after __init__.
Init ==
    /\ pc = "idle"
    /\ ticker = ""
    /\ initial_price = None
    /\ current_price = None
    /\ daily_high = None
    /\ daily_low = None
    /\ cash_reserve = FZero
    /\ trades_today = << >>
    /\ is_running = FALSE
    /\ action = NoAction
    /\ summary = "none"
    /\ iter = 0
    /\ clock = "none"
    /\ polled = None
    /\ absent_run = 0
    /\ position_qty = 0
    /\ position_ok = TRUE
    /\ order_result = "none"
    /\ orders_iter = 0
    /\ submitted_ok = 0
    /\ observed = {}
    /\ reserve_update = "none"
    /\ evaluated = FALSE
    /\ exit_cause = "none"
    /\ failed_sells = 0
    /\ reserve_exact = 0

Next ==
    \/ \E t \in Tickers : Start(t)
    \/ \E r \in PriceReturns : InitialPrice(r)
    \/ InitialPriceTest
    \/ InitialHigh
    \/ InitialLow
    \/ InitialCurrent
    \/ \E q \in Qtys, ok \in BOOLEAN : InitialPosition(q, ok)
    \/ SetRunning
    \/ EnterTry
    \/ \E c \in Clocks : MarketCheck(c)
    \/ \E r \in PriceReturns : Poll(r)
    \/ SetCurrentPrice
    \/ WidenHigh
    \/ WidenLow
    \/ \E q \in Qtys, ok \in BOOLEAN : Evaluate(q, ok)
    \/ \E ok \in BOOLEAN : Submit(ok)
    \/ Record
    \/ Settle
    \/ Sleep
    \/ Interrupt
    \/ LoopError
    \/ stop_monitoring
    \/ SummaryPrices
    \/ \E q \in Qtys, ok \in BOOLEAN : SummaryPosition(q, ok)
    \/ \E ok \in BOOLEAN : SummaryAccount(ok)
    \/ EscapeInit
    \/ Escape

Spec == Init /\ [][Next]_vars

\* ------------------------------------------------------------ the decision alone
\* calculate_rebalance_action and execute_rebalance called on a session whose
\* fields are drawn from the sets of DecideRefCents, DecideCurCents and
\* DecideSales: the loop body from line 245 on.
DecideRefs == {None} \cup {Some(p) : p \in DecideRefCents}
DecideCurs == {None} \cup {Some(p) : p \in DecideCurCents}

DecideInit ==
    /\ pc = "evaluate"
    /\ ticker = "SPY"
    /\ initial_price \in DecideRefs
    /\ current_price \in DecideCurs
    /\ daily_high = current_price
    /\ daily_low = current_price
    /\ \E sale \in DecideSales :
          /\ cash_reserve = proceeds(sale.qty, sale.price)
          /\ reserve_exact = sale.qty * sale.price
    /\ trades_today = << >>
    /\ is_running = TRUE
    /\ action = NoAction
    /\ summary = "none"
    /\ iter = 1
    /\ clock = "open"
    /\ polled = current_price
    /\ absent_run = 0
    /\ position_qty = 0
    /\ position_ok = TRUE
    /\ order_result = "none"
    /\ orders_iter = 0
    /\ submitted_ok = 0
    /\ observed = {}
    /\ reserve_update = "none"
    /\ evaluated = FALSE
    /\ exit_cause = "none"
    /\ failed_sells = 0

DecideNext ==
    \/ \E q \in Qtys, ok \in BOOLEAN : Evaluate(q, ok)
    \/ \E ok \in BOOLEAN : Submit(ok)
    \/ Record
    \/ Settle

DecideSpec == DecideInit /\ [][DecideNext]_vars

\* ------------------------------------------------------------ properties
\* calculate_rebalance_action has returned in this iteration and its order, if
\* any, has not been submitted yet: the session is the one it read.
Decided == evaluated /\ order_result = "none"

\* A price fetch that failed or returned no usable value.
NoPriceValue(x) == x = None \/ Val(x) = 0

\* floor(a / b) for b # 0.
FloorDiv(a, b) == IF b > 0 THEN a \div b ELSE (-a) \div (-b)

\* (cur - init) / init >= 0.05 in decimal arithmetic, for init # 0.
ExactGain(cur, init) ==
    IF init > 0 THEN 100 * (cur - init) >= 5 * init
                ELSE 100 * (cur - init) <= 5 * init

\* (cur - init) / init <= -0.10 in decimal arithmetic, for init # 0.
ExactLoss(cur, init) ==
    IF init > 0 THEN 100 * (cur - init) <= -10 * init
                ELSE 100 * (cur - init) >= -10 * init

\* The loss test of line 146 as the program evaluates it.
ComputedLoss(cur, init) == FCmp(pct_change(cur, init), FNeg(loss_threshold)) <= 0

\* self.cash_reserve > 0
HasReserve == FCmp(cash_reserve, FZero) > 0

\* start_monitoring is past the loop: at line 262, or ended from there (not
\* at one of the ends reached before the loop, "aborted" and "escaped_init").
PastLoop == pc \in StopPcs \cup {"stopped", "escaped"}

\* C1: a sets-reserve update (successful gain-triggered sell) only happens
\* from a state where cash_reserve = 0, and a clears-reserve update
\* (successful loss-triggered buy) only from a state where cash_reserve > 0;
\* the reserve changes in no other step.
C1_ReserveUpdateGuards ==
    /\ [][(pc = "settle" /\ reserve_update' = "sets-reserve") =>
            FCmp(cash_reserve, FZero) = 0]_vars
    /\ [][(pc = "settle" /\ reserve_update' = "clears-reserve") =>
            HasReserve]_vars
    /\ [][cash_reserve' # cash_reserve =>
            (pc = "settle" /\ order_result = "ok"
               /\ reserve_update' # "none")]_vars

\* A reserve set by a sell has just been cleared by a buy.
C1_Witness ==
    /\ pc = "sleep"
    /\ reserve_update = "clears-reserve"
    /\ Len(trades_today) = 2
    /\ trades_today[1].side = "sell"

\* C2: cash_reserve is strictly positive right after a sets-reserve update,
\* exactly 0 right after a clears-reserve update, and never negative.
C2_ReserveSignAfterUpdate ==
    /\ (reserve_update = "sets-reserve" => HasReserve)
    /\ (reserve_update = "clears-reserve" => FCmp(cash_reserve, FZero) = 0)
    /\ FCmp(cash_reserve, FZero) >= 0

\* C3: once initialised, and whenever the two updates of lines 225-226 are
\* not in progress, daily_high is at least, and daily_low at most, the
\* reference price and every price observed so far.
C3_ExtremesBoundObservations ==
    (current_price # None /\ pc \notin {"set_high", "set_low"}) =>
        \A p \in observed \cup {Val(initial_price)} :
            Val(daily_high) >= p /\ Val(daily_low) <= p

\* C4: with a set reference price (a positive one: C6 covers the others), the
\* decision is a sell exactly when
\* (current - reference) / reference >= 0.05, cash_reserve = 0 and the
\* position quantity is positive; the sell is of max(1, floor(quantity *
\* 0.05)) shares and marked sets-reserve.  Reference 100, quantity 100, price
\* 105 gives sell 5 and a reserve of 525 once executed; quantity 0 with a 5%
\* gain gives none.
C4_SellExactlyOnGain ==
    /\ (Decided /\ initial_price # None /\ Val(initial_price) > 0
          /\ current_price # None) =>
         /\ action.action = "sell" <=>
              /\ ExactGain(Val(current_price), Val(initial_price))
              /\ reserve_exact = 0
              /\ position_qty > 0
         /\ action.action = "sell" =>
              /\ action.qty = Max(1, (position_qty * 5) \div 100)
              /\ action.reserve_cash
              /\ ~action.use_reserve
    /\ (Decided /\ initial_price = Some(10000) /\ current_price = Some(10500)
          /\ reserve_exact = 0 /\ position_qty = 100) =>
         action.action = "sell" /\ action.qty = 5
    /\ (pc = "sleep" /\ order_result = "ok" /\ action.action = "sell"
          /\ action.qty = 5 /\ current_price = Some(10500)) =>
         cash_reserve = FOfInt(525) /\ reserve_exact = 52500
    /\ (Decided /\ initial_price = Some(10000) /\ current_price = Some(10500)
          /\ position_qty = 0) =>
         action = NoAction

\* C5: with a positive reference price, when the decision is not a sell, it
\* is a buy exactly when
\* (current - reference) / reference <= -0.10, cash_reserve > 0 and
\* floor(cash_reserve / current_price) > 0; the buy is of that many shares
\* and marked clears-reserve; every other case gives none.  With reserve 525
\* and reference 100, price 94.50 gives none and price 90 gives buy 5 with
\* cash_reserve 0 once executed.
C5_BuyExactlyOnLoss ==
    /\ (Decided /\ initial_price # None /\ Val(initial_price) > 0
          /\ Truthy(current_price) /\ action.action # "sell") =>
         /\ action.action = "buy" <=>
              /\ ExactLoss(Val(current_price), Val(initial_price))
              /\ reserve_exact > 0
              /\ FloorDiv(reserve_exact, Val(current_price)) > 0
         /\ action.action = "buy" =>
              /\ action.qty = FloorDiv(reserve_exact, Val(current_price))
              /\ action.use_reserve
              /\ ~action.reserve_cash
         /\ action.action # "buy" => action = NoAction
    /\ (Decided /\ initial_price = Some(10000) /\ current_price = Some(9450)
          /\ reserve_exact = 52500) =>
         action = NoAction
    /\ (Decided /\ initial_price = Some(10000) /\ current_price = Some(9000)
          /\ reserve_exact = 52500) =>
         action.action = "buy" /\ action.qty = 5
    /\ (pc = "sleep" /\ order_result = "ok" /\ action.action = "buy") =>
         cash_reserve = FZero

\* C6: the decision is none whenever the reference price is unset, zero or
\* negative, whatever the current price, reserve and position are.
C6_NoDecisionFromNonPositiveReference ==
    (Decided /\ (initial_price = None \/ Val(initial_price) <= 0)) =>
        action = NoAction

\* C7: an iteration whose price fetch fails or returns no value changes
\* neither current_price, daily_high, daily_low, cash_reserve nor the ledger,
\* evaluates no decision and submits no order; the loop goes to the sleep and
\* from there to the next iteration.
C7_AbsentPriceSkipsIteration ==
    /\ [][(pc = "poll" /\ pc' # "stopping" /\ NoPriceValue(polled')) =>
            /\ UNCHANGED << current_price, daily_high, daily_low, cash_reserve,
                            trades_today >>
            /\ pc' = "sleep"
            /\ is_running']_vars
    /\ []((pc = "sleep" /\ NoPriceValue(polled)) =>
            ~evaluated /\ orders_iter = 0 /\ action = NoAction)
    /\ [][(pc = "sleep" /\ NoPriceValue(polled) /\ pc' # "stopping") =>
            /\ pc' = "check"
            /\ is_running'
            /\ iter' = iter + 1
            /\ UNCHANGED << current_price, daily_high, daily_low, cash_reserve,
                            trades_today >>]_vars

\* Three consecutive iterations polled no price.
C7_Witness ==
    /\ pc = "sleep"
    /\ absent_run >= 3
    /\ polled = None

\* C8: a failed order submission leaves cash_reserve and the ledger as they
\* were for the rest of its iteration, is the only submission of the
\* iteration, and the loop goes on to the sleep and the next iteration.
C8_FailedOrderMutatesNothing ==
    /\ [][(pc = "submit" /\ order_result' = "error") =>
            /\ UNCHANGED << cash_reserve, trades_today >>
            /\ is_running']_vars
    /\ [][order_result = "error" =>
            UNCHANGED << cash_reserve, trades_today >>]_vars
    /\ [](orders_iter <= 1)
    /\ []((order_result = "error" /\ pc \in LoopPcs) =>
            pc \in {"settle", "sleep"})
    /\ [][(order_result = "error" /\ pc \in LoopPcs /\ pc' # "stopping") =>
            (pc' \in {"sleep", "check"} /\ is_running')]_vars

\* A sell and a buy have both failed: after the failed sell the reserve is
\* still 0, after the failed buy it is still what the sell left.
C8_Witness ==
    /\ pc = "sleep"
    /\ order_result = "error"
    /\ action.action = "buy"
    /\ HasReserve
    /\ Len(trades_today) = 1

\* C9: whenever the append of line 104 is not in progress, the ledger holds
\* one record per submission that succeeded.
C9_LedgerAppendOnlyConfirmed ==
    pc # "record" => Len(trades_today) = submitted_ok

\* C10: when the broker reports the market closed at the per-iteration check,
\* the loop is left, and that iteration polls no price and submits no order.
C10_ClosedMarketStops ==
    clock = "closed" => (PastLoop /\ polled = None /\ orders_iter = 0)

\* C11: the market check comes before any price poll or decision of its
\* iteration (the poll is entered only from the check, with the clock read),
\* and a check that fails is taken as closed: the loop stops in that
\* iteration, with no price polled and no order submitted.
C11_FailedMarketCheckStops ==
    /\ [](clock = "error" =>
            /\ PastLoop
            /\ exit_cause = "market"
            /\ polled = None
            /\ ~evaluated
            /\ orders_iter = 0)
    /\ [][pc' = "poll" => (pc = "check" /\ clock' \in {"open", "closed"})]_vars
    /\ [](pc \in {"poll", "set_price", "set_high", "set_low", "evaluate",
                  "submit"} =>
            clock \in {"open", "closed"} /\ orders_iter = 0)
    /\ [][pc = "check" => (pc' \in {"poll", "stopping"} /\ iter' = iter)]_vars

\* The check failed in a later iteration, after a trade, and ended the loop.
C11_Witness ==
    /\ clock = "error"
    /\ pc = "stopped"
    /\ exit_cause = "market"
    /\ iter >= 2
    /\ Len(trades_today) >= 1

\* C12: when the position fetch of an iteration fails, the decision is
\* skipped: no order is submitted and no financial state changes in that
\* iteration.
C12_FailedPositionFetchSkipsDecision ==
    (evaluated /\ ~position_ok) =>
        /\ action = NoAction
        /\ orders_iter = 0
        /\ reserve_update = "none"

\* C13 as stated: a failed market check only skips its iteration, and the
\* session keeps running.
C13_FailedMarketCheckIsTransient ==
    clock = "error" => (is_running /\ pc \in LoopPcs)

\* C13, amended: a failed market check is taken as the market being closed.
\* It ends the loop in that iteration: line 262 (stop_monitoring) is next, and
\* no later iteration, poll, order or change of the reserve follows.
C13_FailedMarketCheckEndsSession ==
    /\ [](clock = "error" => (PastLoop /\ exit_cause = "market"))
    /\ [][(pc = "check" /\ clock' = "error") => pc' = "stopping"]_vars
    /\ [][clock = "error" =>
            /\ iter' = iter
            /\ pc' \notin LoopPcs
            /\ UNCHANGED << polled, submitted_ok, trades_today,
                            cash_reserve >>]_vars
    /\ [](pc = "stopped" => ~is_running)

\* The first market check of the run failed: the session ended in its first
\* iteration although iterations were left.
C13_Witness ==
    /\ clock = "error"
    /\ pc = "stopped"
    /\ iter = 1
    /\ iter < MaxIter
    /\ ~is_running

\* C14: once start_monitoring has ended after the loop was left (the loop
\* condition false, an interrupt, an exception in the loop body), the final
\* summary has been printed and is_running is false.
C14_EveryExitSummarises ==
    (exit_cause # "none" /\ pc \in EndPcs) =>
        (summary = "full" /\ ~is_running)

\* C15: when the initial price cannot be obtained (the fetch of line 200
\* stored None or 0.0), the test of lines 201-203 returns at once, unless an
\* interrupt leaves start_monitoring first; either way is_running is never
\* set, the loop is never entered, no iteration runs, nothing is polled, no
\* order is submitted, and the ledger and the reserve keep their initial
\* values; once start_monitoring has returned no further step is taken.
C15_NoInitialPriceAborts ==
    /\ [][(pc = "init_test" /\ pc' # "escaped_init") =>
            (pc' = "aborted" <=> ~Truthy(initial_price))]_vars
    /\ [][(pc = "init_test" /\ ~Truthy(initial_price)) =>
            (pc' \in {"aborted", "escaped_init"} /\ UNCHANGED session)]_vars
    /\ []((pc \notin {"idle", "init_fetch"} /\ ~Truthy(initial_price)) =>
            /\ pc \in {"init_test", "aborted", "escaped_init"}
            /\ ~is_running
            /\ iter = 0
            /\ clock = "none"
            /\ polled = None
            /\ current_price = None
            /\ submitted_ok = 0
            /\ trades_today = << >>
            /\ cash_reserve = FZero)
    /\ [](pc = "aborted" => ~Truthy(initial_price))
    /\ []((is_running \/ iter > 0 \/ pc \in LoopPcs) => Truthy(initial_price))
    /\ [][pc = "aborted" => FALSE]_vars

\* The first quote could not be fetched and the run ended there.
C15_Witness ==
    /\ pc = "aborted"
    /\ initial_price = None
    /\ ~is_running

\* C16: the reference price is set by the initial fetch and changed by no
\* later step, so a trade does not move the baseline: after a sell at 3.64
\* against the reference 3.00, the price 3.00 (-17.6% of 3.64) gives no buy.
C16_ReferencePriceFixed ==
    /\ [][pc \notin {"idle", "init_fetch"} =>
            initial_price' = initial_price]_vars
    /\ [](current_price # None =>
            Truthy(initial_price) /\ Val(initial_price) \in observed)
    /\ []((Decided /\ Len(trades_today) = 1
             /\ trades_today[1] = [side |-> "sell", qty |-> 5, price |-> 364]
             /\ initial_price = Some(300)
             /\ current_price = Some(300)) =>
            action = NoAction)

\* After the sell at 3.64 the price came back to 3.00 and nothing was decided.
C16_Witness ==
    /\ Decided
    /\ pc = "sleep"
    /\ initial_price = Some(300)
    /\ current_price = Some(300)
    /\ trades_today = << [side |-> "sell", qty |-> 5, price |-> 364] >>
    /\ cash_reserve = FOfCents(1820)
    /\ action = NoAction

\* C17: after a failed sell, the next evaluation with (current - reference) /
\* reference >= 0.05 and a positive position decides the sell again.
C17_FailedSellRetried ==
    (failed_sells >= 1 /\ Decided
       /\ ExactGain(Val(current_price), Val(initial_price))
       /\ position_qty > 0) =>
        action.action = "sell"

\* C18: with a positive reference price the ledger alternates sell, buy,
\* sell, ... from a sell; an iteration appends at most one record; and,
\* whenever the update of line 172 or 176 is not in progress, cash_reserve > 0
\* exactly when the last record is a sell.
C18_LedgerAlternates ==
    (initial_price # None /\ Val(initial_price) > 0) =>
        /\ \A i \in 1..Len(trades_today) :
             trades_today[i].side = IF i % 2 = 1 THEN "sell" ELSE "buy"
        /\ pc # "settle" =>
             (HasReserve <=>
                /\ Len(trades_today) > 0
                /\ trades_today[Len(trades_today)].side = "sell")
        /\ Len(trades_today) <= iter
        /\ orders_iter <= 1

\* C19 as stated: with a positive reference price, whenever (current -
\* reference) / reference <= -0.10 and cash_reserve > 0, floor(cash_reserve /
\* current_price) is at least 1.
C19_LossConditionAlwaysBuys ==
    (Decided /\ initial_price # None /\ Val(initial_price) > 0
       /\ ExactLoss(Val(current_price), Val(initial_price))
       /\ HasReserve) =>
        FloorDiv(reserve_exact, Val(current_price)) >= 1

\* C19, amended: with a positive reference price, a reserve is at least one
\* share at 1.05 times the reference price; so whenever the loss condition
\* holds, cash_reserve > 0 and the current price is positive, the quotient
\* cash_reserve / current_price is at least 1, in decimal arithmetic and as
\* line 149 computes it, and when line 146 finds the loss condition true the
\* buy of that quantity is decided.
C19_LossConditionBuysAtPositivePrice ==
    /\ (initial_price # None /\ Val(initial_price) > 0 /\ HasReserve) =>
         100 * reserve_exact >= 105 * Val(initial_price)
    /\ (Decided /\ initial_price # None /\ Val(initial_price) > 0
          /\ HasReserve /\ Val(current_price) > 0
          /\ ExactLoss(Val(current_price), Val(initial_price))) =>
         /\ FloorDiv(reserve_exact, Val(current_price)) >= 1
         /\ buy_qty(cash_reserve, Val(current_price)) >= 1
    /\ (Decided /\ initial_price # None /\ Val(initial_price) > 0
          /\ HasReserve /\ Val(current_price) > 0
          /\ ComputedLoss(Val(current_price), Val(initial_price))) =>
         /\ action.action = "buy"
         /\ action.qty = buy_qty(cash_reserve, Val(current_price))
         /\ action.qty >= 1

\* The smallest reserve of the model, one share sold at 3.64, buys one share
\* at 2.60.
C19_Witness ==
    /\ Decided
    /\ initial_price = Some(300)
    /\ current_price = Some(260)
    /\ cash_reserve = FOfCents(364)
    /\ action.action = "buy"
    /\ action.qty = 1

\* C20: a sell is decided only from a positive position quantity, and for a
\* quantity between 1 and the quantity read for the decision.
C20_SellWithinPosition ==
    (evaluated /\ action.action = "sell") =>
        /\ position_qty > 0
        /\ position_ok
        /\ 1 <= action.qty
        /\ action.qty <= position_qty
        /\ action.qty = Max(1, (position_qty * 5) \div 100)

\* A position of one share: the whole position is sold.
C20_Witness ==
    /\ evaluated
    /\ action.action = "sell"
    /\ position_qty = 1
    /\ action.qty = 1

====
